---- MODULE Spec2Model ----
(***************************************************************************)
(* Model of the Prometheus -> ClickHouse ETL worker: the ETL state table   *)
(* (ClickHouseClient), the run_once cycle (EtlJob) and its scratch files.  *)
(* Several workers run run_once against one state table.  A second         *)
(* specification calls the ClickHouseClient methods one at a time over     *)
(* arbitrary table contents, table names and input files; a third parses   *)
(* one Prometheus response event by event (the Transformer); a fourth runs *)
(* main() once, from load_config to the exit status.                       *)
(***************************************************************************)
EXTENDS Integers, Sequences, FiniteSets, TLC

\* ------------------------------------------------------------------ bounds
MaxClock == 2
MaxCycles == 2
MaxWindowSize == 2
MaxOverlap == 2
MaxMinStart == 1
MaxSeedProgress == 3
MaxNameLen == 3
MaxTableRows == 2
MaxLabels == 2
MaxPairLen == 2
MaxSamples == 2
MaxSeries == 2
MaxTextLen == 2

Workers == {1, 2}
Clock == 1..MaxClock

\* What one transform can return: (rows_count, skipped_count).
TransformResults == {<<0, 1>>, <<2, 0>>}

\* Python None / SQL NULL of a Nullable column.
NULL == -1000

Min(a, b) == IF a < b THEN a ELSE b
Max(a, b) == IF a > b THEN a ELSE b

VARIABLES
    etl,               \* rows of the ETL state table, in insertion order
    metrics,           \* bulk inserts received by the metrics table
    tmp,               \* scratch files present in the temp directory
    config,            \* EtlConfig: window size, overlap, minimum window start
    active,            \* the workers deployed against the state table
    budget,            \* run_once calls the drivers will still make
    unlink_ok,         \* whether the temp directory lets files be deleted
    pc,                \* position of each worker inside run_once
    cyc,               \* number of run_once calls each worker has started
    outcome,           \* how the worker's last run_once ended
    calls,             \* client operations invoked by the worker's last run_once
    local,             \* local variables of the run_once in progress
    client,            \* the ClickHouseClient: its table names, the file
                       \* handed to it, its last call and what it sent
    parser,            \* _stream_parse_prometheus_response: its input, its
                       \* local variables and the TSV lines it has written
    main               \* the process running main(): its position and the
                       \* status it exited with

vars == <<etl, metrics, tmp, config, active, budget, unlink_ok, pc, cyc,
          outcome, calls, local, client, parser, main>>

\* ----------------------------------------------------------- table names
\* Characters of a table name: ASCII letter, ASCII digit, underscore, dot,
\* space, punctuation, non-ASCII letter, non-ASCII digit.
NonAsciiLetter == "e-acute"
NonAsciiDigit == "arabic-indic-3"
Chars == {"a", "7", "_", ".", " ", ";", NonAsciiLetter, NonAsciiDigit}

\* str.isalnum and str.isspace on one character.
IsAlnum(c) == c \in {"a", "7", NonAsciiLetter, NonAsciiDigit}
IsSpace(c) == c = " "

\* Strings are sequences of characters.
Strings(n) == UNION {[1..k -> Chars] : k \in 0..n}

\* str.strip() leaves nothing: every character is whitespace.
StripsToEmpty(str) == \A i \in DOMAIN str : IsSpace(str[i])

\* str.split("."): the parts between the dots, in order.
RECURSIVE Split(_)
Split(str) ==
    IF \A i \in DOMAIN str : str[i] # "."
    THEN <<str>>
    ELSE LET d == CHOOSE i \in DOMAIN str :
                     str[i] = "." /\ \A j \in 1..(i - 1) : str[j] # "."
         IN  <<SubSeq(str, 1, d - 1)>> \o Split(SubSeq(str, d + 1, Len(str)))

\* _validate_table_name: TRUE when it returns, FALSE when it raises ValueError.
ValidateTableName(table_name) ==
    LET parts == Split(table_name)
    IN  /\ ~ (table_name = <<>> \/ StripsToEmpty(table_name))
        /\ ~ (Len(parts) > 2)
        /\ \A k \in DOMAIN parts :
              /\ ~ (parts[k] = <<>> \/ StripsToEmpty(parts[k]))
              /\ \A i \in DOMAIN parts[k] :
                    IsAlnum(parts[k][i]) \/ parts[k][i] = "_"

\* Whether the call raises for a reason other than the table name; a call
\* with a table name that fails validation always raises.
MayRaise(table_name) ==
    IF ValidateTableName(table_name) THEN BOOLEAN ELSE {TRUE}

\* ------------------------------------------------------- the state table
StateRow(ts, te, tp, bw, br, bs) ==
    [timestamp_start |-> ts, timestamp_end |-> te, timestamp_progress |-> tp,
     batch_window_seconds |-> bw, batch_rows |-> br, batch_skipped_count |-> bs]

\* Mutant of save_state: the row with the same timestamp_start is written
\* over (an UPDATE) instead of a new row being inserted.
save_state_Replacing(t, ts, te, tp, bw, br, bs) ==
    IF ts = NULL /\ te = NULL /\ tp = NULL /\ bw = NULL /\ br = NULL /\ bs = NULL
    THEN t
    ELSE IF \E i \in DOMAIN t : t[i].timestamp_start = ts
    THEN [i \in DOMAIN t |-> IF t[i].timestamp_start = ts
                             THEN StateRow(ts, te, tp, bw, br, bs) ELSE t[i]]
    ELSE Append(t, StateRow(ts, te, tp, bw, br, bs))

\* save_state: one new row carrying the supplied fields; nothing when no
\* field is supplied.
save_state(t, ts, te, tp, bw, br, bs) ==
    IF ts = NULL /\ te = NULL /\ tp = NULL /\ bw = NULL /\ br = NULL /\ bs = NULL
    THEN t
    ELSE Append(t, StateRow(ts, te, tp, bw, br, bs))

\* Raw rowset of the table (FROM table).
RawRows(t) == {t[i] : i \in DOMAIN t}

\* Merged view (FROM table FINAL): per timestamp_start the row inserted last.
FinalRows(t) ==
    {t[i] : i \in {k \in DOMAIN t :
                     \A j \in DOMAIN t :
                        j > k => t[j].timestamp_start # t[k].timestamp_start}}

\* The LEFT JOIN's "closed" side: a row that closes timestamp_start ts.
IsClosedFor(c, ts) ==
    /\ c.timestamp_start = ts
    /\ c.timestamp_end # NULL
    /\ c.timestamp_end > c.timestamp_start

\* _get_running_job_timestamps over a rowset: the open rows without a
\* closed row of the same timestamp_start (SELECT DISTINCT).
RunningJobTimestamps(rows) ==
    {o.timestamp_start : o \in
        {r \in rows : /\ r.timestamp_start # NULL
                      /\ r.timestamp_end = NULL
                      /\ ~ \E c \in rows : IsClosedFor(c, r.timestamp_start)}}

get_running_job_timestamps(t, use_final) ==
    IF use_final THEN RunningJobTimestamps(FinalRows(t))
    ELSE RunningJobTimestamps(RawRows(t))

\* Mutant of has_running_job: the running rows are read without FINAL.
has_running_job_Unmerged(t) == get_running_job_timestamps(t, FALSE) # {}

\* has_running_job: some running row in the merged view.
has_running_job(t) == get_running_job_timestamps(t, TRUE) # {}

\* The condition of try_mark_start's INSERT ... SELECT ... WHERE (COUNT) = 0,
\* evaluated on the raw rowset.
InsertCondition(t) ==
    Cardinality({i \in DOMAIN t :
        /\ t[i].timestamp_start # NULL
        /\ t[i].timestamp_end = NULL
        /\ ~ \E j \in DOMAIN t : IsClosedFor(t[j], t[i].timestamp_start)}) = 0

\* The table after try_mark_start's conditional insert.
MarkStartInsert(t, ts) ==
    IF InsertCondition(t)
    THEN Append(t, StateRow(ts, NULL, NULL, NULL, NULL, NULL))
    ELSE t

\* try_mark_start's verification on the raw rowset.
MarkStartVerified(t, ts) ==
    LET running_timestamps == get_running_job_timestamps(t, FALSE)
    IN  Cardinality(running_timestamps) = 1 /\ running_timestamps = {ts}

\* Mutant of IsCompleted: timestamp_end is not compared with timestamp_start.
IsCompleted_AnyEnd(r) ==
    r.timestamp_progress # NULL /\ r.timestamp_end # NULL

\* get_state: latest completed row of the merged view, or all fields NULL.
IsCompleted(r) ==
    /\ r.timestamp_progress # NULL
    /\ r.timestamp_end # NULL
    /\ r.timestamp_end > r.timestamp_start

get_state(t) ==
    LET done == {r \in FinalRows(t) : IsCompleted(r)}
    IN  IF done = {}
        THEN StateRow(NULL, NULL, NULL, NULL, NULL, NULL)
        ELSE CHOOSE r \in done :
                \A q \in done : q.timestamp_start <= r.timestamp_start

\* ------------------------------------------------------ run_once helpers
\* Mutant of CalcWindow: the window ends window_size after the progress, so
\* that the overlap enlarges it, and its start is not clamped.
CalcWindow_Enlarged(p, cfg) == <<p - cfg.overlap, p + cfg.window_size>>

\* Mutant of CalcWindow: the overlap is taken off the window's end too.
CalcWindow_Shrunk(p, cfg) ==
    LET shifted == p - cfg.overlap
        ws == IF shifted < cfg.min_start THEN cfg.min_start ELSE shifted
    IN  <<ws, ws + cfg.window_size - cfg.overlap>>

\* _calc_window (lines 358-378)
CalcWindow(p, cfg) ==
    LET shifted == p - cfg.overlap
        ws == IF shifted < cfg.min_start THEN cfg.min_start ELSE shifted
    IN  <<ws, ws + cfg.window_size>>

\* Mutant of NewProgress: the progress is not clamped to the clock.
NewProgress_NoClamp(wend, now) == wend

\* run_once lines 147-149: new_progress
NewProgress(wend, now) == Min(wend, now)

\* run_once line 154: actual_window
ActualWindow(ws, wend, now) == Min(wend, now) - ws

\* Mutant of TimestampEnd: timestamp_end may equal timestamp_start.
TimestampEnd_NotStrict(now, ts) == Max(now, ts)

\* run_once line 171: timestamp_end
TimestampEnd(now, ts) == Max(now, ts + 1)

\* Scratch files of worker w's current cycle.
RawFile(w) == <<w, cyc[w], "prometheus_raw">>
TsvFile(w) == <<w, cyc[w], "etl_processed">>

\* _cleanup_temp_file: os.unlink, whose errors are logged and swallowed.
CleanupTempFile(files, f) == IF unlink_ok THEN files \ {f} ELSE files

\* Mutant of AfterCleanup: the error of os.unlink leaves _cleanup_temp_file.
AfterCleanup_Raises(how) == IF unlink_ok THEN how ELSE "cleanup_failed"

\* _cleanup_temp_file lines 861-895: every exception of os.unlink is caught,
\* so the step ends the way it was ending ("ok": it goes on).
AfterCleanup(how) == how

\* ---------------------------------------------------- the Transformer's input
\* A sequence of at most n elements of S, and the concatenation of a
\* sequence of sequences.
SeqsUpTo(S, n) == UNION {[1..k -> S] : k \in 0..n}

RECURSIVE Flatten(_)
Flatten(ss) == IF ss = <<>> THEN <<>> ELSE Head(ss) \o Flatten(Tail(ss))

\* A str is the sequence of its characters.  Label names in code point
\* order ('_' sorts before the letters), the strings a label or a metric
\* name can hold, and the members of a metric object.
NameKey == <<"_", "_", "n", "a", "m", "e", "_", "_">>
LabelNames == <<NameKey, <<"a">>, <<"b">>>>
LabelValues == {<<"u">>, <<"v">>}
Labels == {<<LabelNames[i], v>> : i \in DOMAIN LabelNames, v \in LabelValues}

\* What a sample pair can hold: JSON numbers, strings and null, as the
\* (event, value) of the ijson event; the value is kept as its text.
Numbers == {"1", "2"}
Literals == {"1.5", "NaN", "Inf", "+Inf", "-Inf", "banana"}
Element(event, value) == [event |-> event, value |-> value]
Number(n) == Element("number", n)
String(l) == Element("string", l)
PairElements ==
    {Number(n) : n \in Numbers} \cup {String(l) : l \in Literals}
    \cup {Element("null", "")}
Pairs == SeqsUpTo(PairElements, MaxPairLen)

\* A member of a series object: "metric" with its labels in document order,
\* or "values" with its sample pairs.
Member(key, labels, samples) ==
    [key |-> key, labels |-> labels, samples |-> samples]
MetricMember(labels) == Member("metric", labels, <<>>)
ValuesMember(samples) == Member("values", <<>>, samples)

\* Responses with one series: any metric object over one sample; one metric
\* object over one sample of any content, or over several well-formed or
\* unparseable samples.
LabelDocuments ==
    {<< <<MetricMember(ls), ValuesMember(<< <<Number("1"), String("1.5")>> >>)>> >> :
        ls \in SeqsUpTo(Labels, MaxLabels)}

SimplePairs ==
    {<<t, v>> : t \in {Number("1"), Number("2"), String("banana")},
                v \in {Number("1"), String("NaN"), String("banana")}}

SampleDocuments ==
    {<< <<MetricMember(<< <<NameKey, <<"u">>>> >>), ValuesMember(ss)>> >> :
        ss \in {<<p>> : p \in Pairs} \cup SeqsUpTo(SimplePairs, MaxSamples)}

\* Responses with several series, each with or without its metric and values
\* members, in either order.
SeriesMetrics ==
    {MetricMember(<< <<<<"a">>, <<"u">>>>, <<NameKey, <<"u">>>> >>),
     MetricMember(<< <<NameKey, <<"v">>>> >>)}
SeriesValues ==
    {ValuesMember(<< <<Number(n), String("1.5")>> >>) : n \in Numbers}
SeriesShapes ==
    {<<>>} \cup {<<m>> : m \in SeriesMetrics \cup SeriesValues}
    \cup {<<m, v>> : m \in SeriesMetrics, v \in SeriesValues}
    \cup {<<v, m>> : m \in SeriesMetrics, v \in SeriesValues}
SeriesDocuments == SeqsUpTo(SeriesShapes, MaxSeries)

Documents == LabelDocuments \cup SampleDocuments \cup SeriesDocuments

\* Responses whose metric name, or whose one label name and value, are any
\* strings over backslash, tab, newline, single quote and a letter.
TextChars == {"\\", "\t", "\n", "'", "a"}
Texts == SeqsUpTo(TextChars, MaxTextLen)
OneSample == ValuesMember(<< <<Number("1"), String("NaN")>> >>)
EscapeDocuments ==
    {<< <<MetricMember(<< <<NameKey, name>> >>), OneSample>> >> : name \in Texts}
    \cup {<< <<MetricMember(<< <<key, value>> >>), OneSample>> >> :
             key \in Texts, value \in Texts}

\* The (prefix, event, value) triples ijson.parse yields for a response; a
\* prefix is kept as its dot-separated segments.
Ev(prefix, event, value) == [prefix |-> prefix, event |-> event, value |-> value]
ResultPrefix == <<"data", "result">>
ItemPrefix == <<"data", "result", "item">>
MetricPrefix == <<"data", "result", "item", "metric">>
ValuesPrefix == <<"data", "result", "item", "values">>
PairPrefix == <<"data", "result", "item", "values", "item">>
ElementPrefix == <<"data", "result", "item", "values", "item", "item">>

PairEvents(pair) ==
    <<Ev(PairPrefix, "start_array", "")>>
    \o [i \in 1..Len(pair) |-> Ev(ElementPrefix, pair[i].event, pair[i].value)]
    \o <<Ev(PairPrefix, "end_array", "")>>

MemberEvents(m) ==
    <<Ev(ItemPrefix, "map_key", m.key)>> \o
    IF m.key = "metric"
    THEN <<Ev(MetricPrefix, "start_map", "")>>
         \o Flatten([i \in 1..Len(m.labels) |->
                       <<Ev(MetricPrefix, "map_key", m.labels[i][1]),
                         Ev(MetricPrefix \o <<m.labels[i][1]>>, "string",
                            m.labels[i][2])>>])
         \o <<Ev(MetricPrefix, "end_map", "")>>
    ELSE <<Ev(ValuesPrefix, "start_array", "")>>
         \o Flatten([i \in 1..Len(m.samples) |-> PairEvents(m.samples[i])])
         \o <<Ev(ValuesPrefix, "end_array", "")>>

SeriesEvents(series) ==
    <<Ev(ItemPrefix, "start_map", "")>>
    \o Flatten([i \in 1..Len(series) |-> MemberEvents(series[i])])
    \o <<Ev(ItemPrefix, "end_map", "")>>

Events(doc) ==
    <<Ev(ResultPrefix, "start_array", "")>>
    \o Flatten([i \in 1..Len(doc) |-> SeriesEvents(doc[i])])
    \o <<Ev(ResultPrefix, "end_array", "")>>

\* ------------------------------------------------------------------ floats
\* A Python float: nan, an infinity with its sign, or a finite number kept
\* in tenths.
NaN == [class |-> "nan", tenths |-> 0]
PosInf == [class |-> "inf", tenths |-> 1]
NegInf == [class |-> "inf", tenths |-> -1]
Finite(tenths) == [class |-> "finite", tenths |-> tenths]

\* float(value) raised ValueError instead of returning a float.
ValueError == [class |-> "ValueError", tenths |-> 0]

\* float(value) of a number event.
FloatOfNumber(value) == IF value = "1" THEN Finite(10) ELSE Finite(20)

\* str.lower() of the literals.
Lower(value) ==
    CASE value = "NaN" -> "nan"
      [] value = "Inf" -> "inf"
      [] value = "+Inf" -> "+inf"
      [] value = "-Inf" -> "-inf"
      [] OTHER -> value

\* Mutant of FloatOfString: only decimal numerals are converted.
FloatOfString_NumeralsOnly(value) ==
    IF value = "1.5" THEN Finite(15) ELSE ValueError

\* float(value) of a string event: nan and the infinities, whatever their
\* case and with an optional sign, and decimal numerals; ValueError for
\* anything else.
FloatOfString(value) ==
    LET l == Lower(value)
    IN  CASE l \in {"nan", "+nan", "-nan"} -> NaN
          [] l \in {"inf", "+inf", "infinity", "+infinity"} -> PosInf
          [] l \in {"-inf", "-infinity"} -> NegInf
          [] l = "1.5" -> Finite(15)
          [] OTHER -> ValueError

\* f"{value:.15g}" and f"{ts:.6f}" of the finite numbers in use.
General15(tenths) ==
    CASE tenths = 10 -> "1" [] tenths = 15 -> "1.5" [] tenths = 20 -> "2"
Fixed6(tenths) ==
    CASE tenths = 10 -> "1.000000" [] tenths = 15 -> "1.500000"
      [] tenths = 20 -> "2.000000"

\* Mutant of _format_float: the special values keep the upstream spelling.
FormatFloat_Upstream(value) ==
    IF value.class = "nan" THEN "NaN"
    ELSE IF value.class = "inf"
    THEN (IF value.tenths > 0 THEN "+Inf" ELSE "-Inf")
    ELSE General15(value.tenths)

\* _format_float.
FormatFloat(value) ==
    IF value.class = "nan" THEN "nan"
    ELSE IF value.class = "inf"
    THEN (IF value.tenths > 0 THEN "inf" ELSE "-inf")
    ELSE General15(value.tenths)

\* f"{ts:.6f}" of the timestamp column.
FormatTimestamp(ts) ==
    IF ts.class = "nan" THEN "nan"
    ELSE IF ts.class = "inf"
    THEN (IF ts.tenths > 0 THEN "inf" ELSE "-inf")
    ELSE Fixed6(ts.tenths)

\* ------------------------------------ _stream_parse_prometheus_response
\* A dict, in insertion order: d[key] = value, d.get(key, default) and
\* d.pop(key, None).
DictSet(d, key, value) ==
    IF \E i \in DOMAIN d : d[i][1] = key
    THEN [i \in DOMAIN d |-> IF d[i][1] = key THEN <<key, value>> ELSE d[i]]
    ELSE Append(d, <<key, value>>)

DictGet(d, key, default) ==
    IF \E i \in DOMAIN d : d[i][1] = key
    THEN (CHOOSE item \in {d[i] : i \in DOMAIN d} : item[1] = key)[2]
    ELSE default

DictPop(d, key) == SelectSeq(d, LAMBDA item : item[1] # key)

\* ord(c) of the characters in use, and s < t on str: the first differing
\* character decides, a proper prefix is smaller.
CodePoint(c) ==
    CASE c = "\t" -> 9 [] c = "\n" -> 10 [] c = "'" -> 39 [] c = "\\" -> 92
      [] c = "_" -> 95 [] c = "a" -> 97 [] c = "b" -> 98 [] c = "e" -> 101
      [] c = "m" -> 109 [] c = "n" -> 110 [] c = "u" -> 117 [] c = "v" -> 118

RECURSIVE StrLess(_, _)
StrLess(s, t) ==
    IF t = <<>> THEN FALSE
    ELSE IF s = <<>> THEN TRUE
    ELSE IF Head(s) = Head(t) THEN StrLess(Tail(s), Tail(t))
    ELSE CodePoint(Head(s)) < CodePoint(Head(t))

\* Mutant of SortedItems: the labels keep the order of the response.
SortedItems_Unsorted(d) == d

\* dict(sorted(d.items())): the items by ascending key.
RECURSIVE SortedItems(_)
SortedItems(d) ==
    IF d = <<>> THEN <<>>
    ELSE LET first == CHOOSE item \in {d[i] : i \in DOMAIN d} :
                         \A i \in DOMAIN d :
                            item[1] = d[i][1] \/ StrLess(item[1], d[i][1])
         IN  <<first>> \o SortedItems(DictPop(d, first[1]))

\* str.replace(old, new) for a one-character old, and sep.join(parts).
RECURSIVE Replace(_, _, _)
Replace(value, old, new) ==
    IF value = <<>> THEN <<>>
    ELSE (IF Head(value) = old THEN new ELSE <<Head(value)>>)
         \o Replace(Tail(value), old, new)

RECURSIVE Join(_, _)
Join(sep, parts) ==
    IF parts = <<>> THEN <<>>
    ELSE IF Len(parts) = 1 THEN parts[1]
    ELSE parts[1] \o sep \o Join(sep, Tail(parts))

\* Mutant of _escape_tabseparated_chars: only the backslash is escaped.
EscapeTabSeparatedChars_BackslashOnly(value) ==
    Replace(value, "\\", <<"\\", "\\">>)

\* _escape_tabseparated_chars: backslash first, then tab, then newline.
EscapeTabSeparatedChars(value) ==
    Replace(Replace(Replace(value, "\\", <<"\\", "\\">>),
                    "\t", <<"\\", "t">>),
            "\n", <<"\\", "n">>)

\* _format_clickhouse_array: "[]", or the escaped elements, each between
\* single quotes, separated by commas, between brackets.
FormatClickhouseArray(arr) ==
    IF arr = <<>> THEN <<"[", "]">>
    ELSE <<"[">>
         \o Join(<<",">>,
                 [i \in DOMAIN arr |->
                    <<"'">>
                    \o Replace(EscapeTabSeparatedChars(arr[i]), "'",
                               <<"\\", "'">>)
                    \o <<"'">>])
         \o <<"]">>

\* One line of the TSV file (lines 736-739): its columns, and its text, in
\* which the text of a number stands as one element.
TsvLine(ts, name, keys, values, value) ==
    [timestamp |-> ts, name |-> name, labels_key |-> keys,
     labels_value |-> values, value |-> value,
     text |-> <<ts>> \o <<"\t">> \o name \o <<"\t">> \o keys \o <<"\t">>
              \o values \o <<"\t">> \o <<value>> \o <<"\n">>]

\* The parser before its first event (lines 553-573).
NewParser(doc) ==
    [doc |-> doc, input |-> Events(doc), pos |-> 1,
     rows_count |-> 0, series_count |-> 0, skipped_count |-> 0,
     current_metric |-> <<>>, current_metric_name |-> <<>>,
     current_labels |-> <<>>, in_values_array |-> FALSE,
     current_value_pair |-> <<>>, value_pair_index |-> 0,
     labels_keys_str |-> <<>>, labels_values_str |-> <<>>,
     metric_name_escaped |-> <<>>, output_f |-> <<>>, returned |-> FALSE]

\* No response is being parsed.
NoParser == [NewParser(<<>>) EXCEPT !.input = <<>>, !.returned = TRUE]

IsPrefixOf(p, q) == Len(p) <= Len(q) /\ SubSeq(q, 1, Len(p)) = p

\* The branch of the if/elif chain (lines 577-704) an event takes.
Branch(ev, in_values_array) ==
    IF ev.prefix = ItemPrefix /\ ev.event = "start_map" THEN "series_start"
    ELSE IF Len(ev.prefix) > Len(MetricPrefix) /\ IsPrefixOf(MetricPrefix, ev.prefix)
    THEN (IF ev.event = "string" THEN "metric_string" ELSE "none")
    ELSE IF ev.prefix = MetricPrefix /\ ev.event = "end_map" THEN "metric_end"
    ELSE IF ev.prefix = ValuesPrefix /\ ev.event = "start_array"
    THEN "values_start"
    ELSE IF ev.prefix = ValuesPrefix /\ ev.event = "end_array" THEN "values_end"
    ELSE IF in_values_array
    THEN (IF ev.prefix = PairPrefix /\ ev.event = "start_array" THEN "pair_start"
          ELSE IF ev.prefix = ElementPrefix
          THEN (IF ev.event = "number" THEN "pair_number"
                ELSE IF ev.event = "string" THEN "pair_string"
                ELSE "none")
          ELSE IF ev.prefix = PairPrefix /\ ev.event = "end_array"
          THEN "pair_end"
          ELSE "none")
    ELSE "none"

\* The parser is at an event that takes the given branch.
At(branch) ==
    /\ ~ parser.returned
    /\ parser.pos <= Len(parser.input)
    /\ Branch(parser.input[parser.pos], parser.in_values_array) = branch

Event == parser.input[parser.pos]

NotParser ==
    <<etl, metrics, tmp, config, active, budget, unlink_ok, pc, cyc, outcome,
      calls, local, client, main>>

\* Lines 577-585: a new series resets the per-series state.
StartSeries ==
    /\ At("series_start")
    /\ parser' = [parser EXCEPT !.pos = @ + 1,
                                !.current_metric = <<>>,
                                !.current_metric_name = <<>>,
                                !.current_labels = <<>>,
                                !.in_values_array = FALSE,
                                !.current_value_pair = <<>>,
                                !.value_pair_index = 0,
                                !.series_count = @ + 1]
    /\ UNCHANGED NotParser

\* Lines 588-593: a string member of the metric object, under the last
\* segment of its prefix.
CollectLabel ==
    /\ At("metric_string")
    /\ LET parts == Split(Event.prefix[Len(Event.prefix)])
           label_key == parts[Len(parts)]
       IN  parser' = [parser EXCEPT !.pos = @ + 1,
                         !.current_metric = DictSet(@, label_key, Event.value)]
    /\ UNCHANGED NotParser

\* Lines 596-610: the metric object is complete; name and label arrays are
\* formatted once for the series.
CompleteMetric ==
    /\ At("metric_end")
    /\ LET name == DictGet(parser.current_metric, NameKey, <<>>)
           labels == DictPop(parser.current_metric, NameKey)
           labels_sorted == SortedItems(labels)
           labels_keys == [i \in DOMAIN labels_sorted |-> labels_sorted[i][1]]
           labels_values == [i \in DOMAIN labels_sorted |-> labels_sorted[i][2]]
       IN  parser' = [parser EXCEPT
                         !.pos = @ + 1,
                         !.current_metric_name = name,
                         !.current_labels = labels,
                         !.labels_keys_str = FormatClickhouseArray(labels_keys),
                         !.labels_values_str =
                             FormatClickhouseArray(labels_values),
                         !.metric_name_escaped = EscapeTabSeparatedChars(name)]
    /\ UNCHANGED NotParser

\* Lines 613-616.
EnterValues ==
    /\ At("values_start")
    /\ parser' = [parser EXCEPT !.pos = @ + 1,
                                !.in_values_array = TRUE,
                                !.current_value_pair = <<>>,
                                !.value_pair_index = 0]
    /\ UNCHANGED NotParser

\* Lines 619-620.
ExitValues ==
    /\ At("values_end")
    /\ parser' = [parser EXCEPT !.pos = @ + 1, !.in_values_array = FALSE]
    /\ UNCHANGED NotParser

\* Lines 631-634.
StartPair ==
    /\ At("pair_start")
    /\ parser' = [parser EXCEPT !.pos = @ + 1,
                                !.current_value_pair = <<>>,
                                !.value_pair_index = 0]
    /\ UNCHANGED NotParser

\* Lines 637-648: a number inside a pair.
PairNumber ==
    /\ At("pair_number")
    /\ parser' = [parser EXCEPT
                     !.pos = @ + 1,
                     !.current_value_pair = Append(@, FloatOfNumber(Event.value)),
                     !.value_pair_index = @ + 1]
    /\ UNCHANGED NotParser

\* Lines 649-703: a string inside a pair is converted, or counted as skipped
\* with the pair emptied.
PairString ==
    /\ At("pair_string")
    /\ LET float_value == FloatOfString(Event.value)
       IN  IF float_value # ValueError
           THEN parser' = [parser EXCEPT
                              !.pos = @ + 1,
                              !.current_value_pair = Append(@, float_value),
                              !.value_pair_index = @ + 1]
           ELSE parser' = [parser EXCEPT !.pos = @ + 1,
                                         !.skipped_count = @ + 1,
                                         !.current_value_pair = <<>>,
                                         !.value_pair_index = 0]
    /\ UNCHANGED NotParser

\* Mutant of WritesRow: a pair is written whatever it holds.
WritesRow_AnyLength(current_value_pair) == Len(current_value_pair) >= 1

\* Line 706: only a pair of two elements is written.
WritesRow(current_value_pair) == Len(current_value_pair) = 2

\* Lines 704-744: the pair is complete; its row is written at once.
EndPair ==
    /\ At("pair_end")
    /\ IF WritesRow(parser.current_value_pair)
       THEN LET ts == parser.current_value_pair[1]
                val == parser.current_value_pair[Len(parser.current_value_pair)]
            IN  parser' = [parser EXCEPT
                   !.pos = @ + 1,
                   !.output_f =
                       Append(@, TsvLine(FormatTimestamp(ts),
                                         parser.metric_name_escaped,
                                         parser.labels_keys_str,
                                         parser.labels_values_str,
                                         FormatFloat(val))),
                   !.rows_count = @ + 1,
                   !.current_value_pair = <<>>,
                   !.value_pair_index = 0]
       ELSE parser' = [parser EXCEPT !.pos = @ + 1]
    /\ UNCHANGED NotParser

\* An event no branch handles (map keys, ends of maps, nulls, events
\* outside data.result).
SkipEvent ==
    /\ At("none")
    /\ parser' = [parser EXCEPT !.pos = @ + 1]
    /\ UNCHANGED NotParser

\* Line 746: the events are exhausted and the counts are returned.
ReturnCounts ==
    /\ ~ parser.returned
    /\ parser.pos > Len(parser.input)
    /\ parser' = [parser EXCEPT !.returned = TRUE]
    /\ UNCHANGED NotParser

\* ------------------------------------------------------------ initial state
Configs ==
    [window_size : 1..MaxWindowSize, overlap : 0..MaxOverlap,
     min_start : 0..MaxMinStart]

\* The externally seeded row: a completed cycle carrying the initial progress.
SeedRow(p) == StateRow(0, 1, p, NULL, NULL, NULL)

\* No run_once in progress: no local variable holds a value.
NoLocals ==
    [timestamp_start |-> NULL, progress |-> NULL, window_start |-> NULL,
     window_end |-> NULL, rows_count |-> NULL, skipped_count |-> NULL,
     current_time |-> NULL, new_progress |-> NULL, actual_window |-> NULL,
     timestamp_end |-> NULL, output_open |-> FALSE]

\* A ClickHouseClient as constructed: nothing called, nothing sent.
NewClient(table_etl, table_metrics, file) ==
    [table_etl |-> table_etl, table_metrics |-> table_metrics, file |-> file,
     op |-> "none", arg |-> NULL, raised |-> "none", result |-> NULL,
     sent |-> <<>>]

\* No main() is being followed.
NoMain == [pc |-> "none", status |-> NULL, raised |-> "none"]

\* main() has been entered.
NewMain == [pc |-> "load_config", status |-> NULL, raised |-> "none"]

\* Table names of a deployment: the state table, and the metrics table,
\* which may be misconfigured.
EtlTable == <<"a", ".", "a">>
MetricsTable == <<"a", ".", "7">>
MetricsTableNames == {MetricsTable, <<"a", ";", "a">>}

\* State table names of a deployment, valid or not.
EtlTableNames == {EtlTable, <<"a", " ", "a">>}

\* The state before any run_once of this deployment.
Start(cfg, table, deployed, runs) ==
    /\ config = cfg
    /\ etl = table
    /\ active = deployed
    /\ budget = runs
    /\ unlink_ok \in BOOLEAN
    /\ metrics = <<>>
    /\ tmp = {}
    /\ pc = [w \in Workers |-> "idle"]
    /\ cyc = [w \in Workers |-> 0]
    /\ outcome = [w \in Workers |-> "none"]
    /\ calls = [w \in Workers |-> {}]
    /\ local = [w \in Workers |-> NoLocals]

\* Two workers against one state table, seeded or not, default overlap and
\* minimum window start.
Init ==
    \E table \in {<<>>, <<SeedRow(0)>>} :
       /\ Start([window_size |-> 1, overlap |-> 0, min_start |-> 0], table,
                Workers, MaxCycles)
       /\ client = NewClient(EtlTable, MetricsTable, "none")
       /\ parser = NoParser
       /\ main = NoMain

\* One cycle of one worker, for every configuration and seeded progress.
InitWindow ==
    \E cfg \in Configs, p \in 0..MaxSeedProgress, name \in MetricsTableNames :
       /\ Start(cfg, <<SeedRow(p)>>, {1}, 1)
       /\ client = NewClient(EtlTable, name, "none")
       /\ parser = NoParser
       /\ main = NoMain

\* ----------------------------------------------------------------- run_once
\* run_once returns or raises: its frame is gone and the worker is idle.
Finish(w, how) ==
    /\ pc' = [pc EXCEPT ![w] = "idle"]
    /\ outcome' = [outcome EXCEPT ![w] = how]
    /\ local' = [local EXCEPT ![w] = NoLocals]

Goto(w, where) ==
    /\ pc' = [pc EXCEPT ![w] = where]
    /\ UNCHANGED outcome

Called(w, op) == calls' = [calls EXCEPT ![w] = @ \cup {op}]

\* Mutant of CheckCanStartResult: an exception of has_running_job is taken
\* for "no job is running".
CheckCanStartResult_IgnoresError(t, raised) == ~ has_running_job(t)

\* Mutant of CheckCanStartResult: a running job does not block the start.
CheckCanStartResult_IgnoresRunning(t, raised) == ~ raised

\* _check_can_start: FALSE when a job is running or has_running_job raised.
CheckCanStartResult(t, raised) == ~ raised /\ ~ has_running_job(t)

\* run_once, lines 82-86: a new cycle begins with the gate.
CheckCanStart(w) ==
    /\ pc[w] = "idle"
    /\ w \in active
    /\ budget > 0
    /\ budget' = budget - 1
    /\ cyc' = [cyc EXCEPT ![w] = @ + 1]
    /\ \E raised \in MayRaise(client.table_etl) :
          /\ calls' = [calls EXCEPT ![w] =
                         {"has_running_job"} \cup
                         (IF raised THEN {"has_running_job raised"} ELSE {})]
          /\ IF CheckCanStartResult(etl, raised)
             THEN /\ pc' = [pc EXCEPT ![w] = "mark_start"]
                  /\ outcome' = [outcome EXCEPT ![w] = "none"]
                  /\ UNCHANGED local
             ELSE Finish(w, "cannot_start")
    /\ UNCHANGED <<etl, metrics, tmp, config, client, parser, main, active, unlink_ok>>

\* run_once line 90 and try_mark_start's conditional INSERT (lines 563-579).
TryMarkStartInsert(w) ==
    /\ pc[w] = "mark_start"
    /\ \E now \in Clock, raised \in MayRaise(client.table_etl) :
          IF raised
          THEN /\ Finish(w, "mark_failed")
               /\ calls' = [calls EXCEPT ![w] =
                              @ \cup {"try_mark_start", "try_mark_start raised"}]
               /\ UNCHANGED etl
          ELSE /\ Goto(w, "mark_verify")
               /\ local' = [local EXCEPT ![w].timestamp_start = now]
               /\ etl' = MarkStartInsert(etl, now)
               /\ calls' = [calls EXCEPT ![w] =
                              @ \cup {"try_mark_start"} \cup
                              (IF InsertCondition(etl)
                               THEN {"try_mark_start inserted"} ELSE {})]
    /\ UNCHANGED <<metrics, tmp, config, client, parser, main, active, unlink_ok, budget, cyc>>

\* try_mark_start's verification (lines 581-593) and _mark_start's result.
TryMarkStartVerify(w) ==
    /\ pc[w] = "mark_verify"
    /\ \E raised \in MayRaise(client.table_etl) :
          /\ calls' = [calls EXCEPT ![w] =
                         @ \cup (IF raised THEN {"try_mark_start raised"} ELSE {})]
          /\ IF ~ raised /\ MarkStartVerified(etl, local[w].timestamp_start)
             THEN Goto(w, "load_progress") /\ UNCHANGED local
             ELSE Finish(w, "mark_failed")
    /\ UNCHANGED <<etl, metrics, tmp, config, client, parser, main, active,
                   unlink_ok, budget, cyc>>

\* Mutant of ProgressMissing: a missing progress is not noticed.
ProgressMissing_Never(p) == FALSE

\* _load_progress lines 304-305: the progress read from get_state is None.
ProgressMissing(p) == p = NULL

\* _load_progress and _calc_window (run_once lines 101-102).
LoadProgress(w) ==
    /\ pc[w] = "load_progress"
    /\ Called(w, "get_state")
    /\ \E raised \in MayRaise(client.table_etl) :
          LET p == get_state(etl).timestamp_progress
              win == CalcWindow(p, config)
          IN  IF raised
              THEN Finish(w, "state_read_failed")
              ELSE IF ProgressMissing(p)
              THEN Finish(w, "progress_missing")
              ELSE /\ Goto(w, "create_raw")
                   /\ local' = [local EXCEPT ![w].progress = p,
                                             ![w].window_start = win[1],
                                             ![w].window_end = win[2]]
    /\ UNCHANGED <<etl, metrics, tmp, config, client, parser, main, active, unlink_ok, budget, cyc>>

\* _fetch_data lines 413-416: create the prometheus_raw_*.json file.
CreateRawFile(w) ==
    /\ pc[w] = "create_raw"
    /\ \E raised \in BOOLEAN :
          IF raised
          THEN Finish(w, "tempfile_failed") /\ UNCHANGED tmp
          ELSE /\ Goto(w, "extract")
               /\ tmp' = tmp \cup {RawFile(w)}
               /\ UNCHANGED local
    /\ UNCHANGED <<etl, metrics, config, client, parser, main, active, unlink_ok, budget, cyc, calls>>

\* _fetch_data lines 418-439: the range query streamed to the raw file.
Extract(w) ==
    /\ pc[w] = "extract"
    /\ Called(w, "query_range_to_file")
    /\ \E raised \in BOOLEAN :
          IF raised
          THEN /\ Finish(w, AfterCleanup("extract_failed"))
               /\ tmp' = CleanupTempFile(tmp, RawFile(w))
          ELSE /\ Goto(w, "create_out")
               /\ UNCHANGED <<tmp, local>>
    /\ UNCHANGED <<etl, metrics, config, client, parser, main, active, unlink_ok, budget, cyc>>

\* _fetch_data lines 458-460: create the etl_processed_*.tsv file; mkstemp
\* returns it open (output_fd).
CreateOutFile(w) ==
    /\ pc[w] = "create_out"
    /\ \E raised \in BOOLEAN :
          IF raised
          THEN Finish(w, "tempfile_failed") /\ UNCHANGED tmp
          ELSE /\ Goto(w, "transform")
               /\ tmp' = tmp \cup {TsvFile(w)}
               /\ local' = [local EXCEPT ![w].output_open = TRUE]
    /\ UNCHANGED <<etl, metrics, config, client, parser, main, active, unlink_ok, budget, cyc, calls>>

\* Mutant of WithExit: the output file stays open after the with block.
WithExit_LeavesOpen(open) == open

\* _fetch_data lines 465-468: the with statement closes input_f and output_f
\* when the block is left, normally or by an exception.
WithExit(open) == FALSE

\* _fetch_data lines 462-495: parse the raw file into the TSV file; the raw
\* file is removed in every case, the TSV file when the transform raised.
Transform(w) ==
    /\ pc[w] = "transform"
    /\ Called(w, "stream_parse")
    /\ \E raised \in BOOLEAN :
          IF raised
          THEN /\ Finish(w, AfterCleanup("transform_failed"))
               /\ tmp' = CleanupTempFile(CleanupTempFile(tmp, RawFile(w)),
                                         TsvFile(w))
          ELSE /\ tmp' = CleanupTempFile(tmp, RawFile(w))
               /\ IF AfterCleanup("ok") = "ok"
                  THEN /\ Goto(w, "load")
                       /\ \E res \in TransformResults :
                             local' = [local EXCEPT
                                ![w].rows_count = res[1],
                                ![w].skipped_count = res[2],
                                ![w].output_open = WithExit(@)]
                  ELSE Finish(w, AfterCleanup("ok"))
    /\ UNCHANGED <<etl, metrics, config, client, parser, main, active, unlink_ok, budget, cyc>>

\* Mutant of AfterLoad: the exception of insert_from_file is swallowed.
AfterLoad_Swallowed(raised) == "advance"

\* run_once lines 125-133: an exception of insert_from_file is logged and
\* raised again; without one the cycle goes on to the advance step.
AfterLoad(raised) == IF raised THEN "load_failed" ELSE "advance"

\* Mutant of LoadsRows: the Loader is invoked for an empty result too.
LoadsRows_Always(rows_count) == TRUE

\* run_once line 113: the TSV file is loaded only when it holds rows.
LoadsRows(rows_count) == rows_count > 0

\* run_once lines 113-140: bulk insert of the TSV file, skipped for no rows;
\* the TSV file is removed in every case.
Load(w) ==
    /\ pc[w] = "load"
    /\ tmp' = CleanupTempFile(tmp, TsvFile(w))
    /\ IF LoadsRows(local[w].rows_count)
       THEN \E raised \in MayRaise(client.table_metrics) :
               /\ calls' = [calls EXCEPT ![w] =
                              @ \cup {"insert_from_file"} \cup
                              (IF raised THEN {"insert_from_file raised"} ELSE {})]
               /\ metrics' = IF raised THEN metrics
                             ELSE Append(metrics,
                                    [window_start |-> local[w].window_start,
                                     window_end |-> local[w].window_end,
                                     rows |-> local[w].rows_count])
               /\ IF AfterCleanup(AfterLoad(raised)) = "advance"
                  THEN Goto(w, "advance") /\ UNCHANGED local
                  ELSE Finish(w, AfterCleanup(AfterLoad(raised)))
       ELSE /\ UNCHANGED <<metrics, calls>>
            /\ IF AfterCleanup("ok") = "ok"
               THEN Goto(w, "advance") /\ UNCHANGED local
               ELSE Finish(w, AfterCleanup("ok"))
    /\ UNCHANGED <<etl, config, client, parser, main, active, unlink_ok, budget, cyc>>

\* run_once lines 147-171: read the clock, clamp the progress to it and
\* choose timestamp_end.
Advance(w) ==
    /\ pc[w] = "advance"
    /\ \E now \in Clock :
          local' = [local EXCEPT
             ![w].current_time = now,
             ![w].new_progress = NewProgress(local[w].window_end, now),
             ![w].actual_window =
                 ActualWindow(local[w].window_start, local[w].window_end, now),
             ![w].timestamp_end = TimestampEnd(now, local[w].timestamp_start)]
    /\ Goto(w, "save_state")
    /\ UNCHANGED <<etl, metrics, tmp, config, client, parser, main, active, unlink_ok, budget, cyc,
                   calls>>

\* run_once lines 173-180: the closing row, through
\* _save_state_after_success.
SaveStateAfterSuccess(w) ==
    /\ pc[w] = "save_state"
    /\ Called(w, "save_state")
    /\ \E raised \in MayRaise(client.table_etl) :
          IF raised
          THEN Finish(w, "save_failed") /\ UNCHANGED etl
          ELSE /\ Finish(w, "success")
               /\ etl' = save_state(etl,
                            local[w].timestamp_start,
                            local[w].timestamp_end,
                            local[w].new_progress,
                            local[w].actual_window,
                            local[w].rows_count,
                            local[w].skipped_count)
    /\ UNCHANGED <<metrics, tmp, config, client, parser, main, active, unlink_ok, budget, cyc>>

\* The worker process dies in the middle of a cycle.
Crash(w) ==
    /\ pc[w] # "idle"
    /\ Finish(w, "crashed")
    /\ UNCHANGED <<etl, metrics, tmp, config, client, parser, main, active, unlink_ok, budget, cyc,
                   calls>>

\* Background merge of the ReplacingMergeTree state table: a row is dropped
\* when a row of the same timestamp_start was inserted after it.
RemoveAt(t, i) == SubSeq(t, 1, i - 1) \o SubSeq(t, i + 1, Len(t))

Merge ==
    /\ \E i \in DOMAIN etl :
          /\ \E j \in DOMAIN etl :
                j > i /\ etl[j].timestamp_start = etl[i].timestamp_start
          /\ etl' = RemoveAt(etl, i)
    /\ UNCHANGED <<metrics, tmp, config, client, parser, main, active, unlink_ok,
                   budget, pc, cyc, outcome, calls, local>>

\* ------------------------------------------- ClickHouseClient, call by call
\* A statement or HTTP request sent to the store, with the table it names.
Statement(verb, table) == [verb |-> verb, table |-> table]

\* The call returns or raises: what it was, its argument, and its outcome.
Returns(op, arg, raised, result, sent) ==
    client' = [client EXCEPT !.op = op, !.arg = arg, !.raised = raised,
                             !.result = result, !.sent = sent]

\* Mutant of NameRejected: the call to _validate_table_name is left out.
NameRejected_Never(table_name) == FALSE

\* self._validate_table_name(...) at the head of a call: the call raises
\* ValueError there when the name is rejected.
NameRejected(table_name) == ~ ValidateTableName(table_name)

\* get_state, lines 239-294.
ClientGetState ==
    /\ client.op = "none"
    /\ IF NameRejected(client.table_etl)
       THEN Returns("get_state", NULL, "ValueError", NULL, <<>>)
       ELSE \E raised \in BOOLEAN :
               Returns("get_state", NULL,
                       IF raised THEN "Exception" ELSE "none",
                       IF raised THEN NULL ELSE get_state(etl),
                       <<Statement("SELECT", client.table_etl)>>)
    /\ UNCHANGED <<etl, metrics, tmp, config, active, budget, unlink_ok, pc, cyc,
                   outcome, calls, local, parser, main>>

\* has_running_job, lines 497-522, over _get_running_job_timestamps.
ClientHasRunningJob ==
    /\ client.op = "none"
    /\ IF NameRejected(client.table_etl)
       THEN Returns("has_running_job", NULL, "ValueError", NULL, <<>>)
       ELSE \E raised \in BOOLEAN :
               Returns("has_running_job", NULL,
                       IF raised THEN "Exception" ELSE "none",
                       IF raised THEN NULL ELSE has_running_job(etl),
                       <<Statement("SELECT", client.table_etl)>>)
    /\ UNCHANGED <<etl, metrics, tmp, config, active, budget, unlink_ok, pc, cyc,
                   outcome, calls, local, parser, main>>

\* try_mark_start, lines 524-609: the conditional INSERT, then the
\* verification read; either statement may fail.
ClientTryMarkStart ==
    /\ client.op = "none"
    /\ \E ts \in Clock :
          IF NameRejected(client.table_etl)
          THEN /\ Returns("try_mark_start", ts, "ValueError", NULL, <<>>)
               /\ UNCHANGED etl
          ELSE \E failed \in {"none", "insert", "verify"} :
                  LET insert == Statement("INSERT", client.table_etl)
                      verify == Statement("SELECT", client.table_etl)
                      after == MarkStartInsert(etl, ts)
                  IN  IF failed = "insert"
                      THEN /\ Returns("try_mark_start", ts, "Exception", NULL,
                                      <<insert>>)
                           /\ UNCHANGED etl
                      ELSE /\ etl' = after
                           /\ Returns("try_mark_start", ts,
                                      IF failed = "verify" THEN "Exception"
                                      ELSE "none",
                                      IF failed = "verify" THEN NULL
                                      ELSE MarkStartVerified(after, ts),
                                      <<insert, verify>>)
    /\ UNCHANGED <<metrics, tmp, config, active, budget, unlink_ok, pc, cyc,
                   outcome, calls, local, parser, main>>

\* Arguments of save_state: no field, the progress alone, a claim row, a
\* closing row.
SaveStateArgs ==
    {<<NULL, NULL, NULL, NULL, NULL, NULL>>} \cup
    {<<NULL, NULL, 1, NULL, NULL, NULL>>} \cup
    {<<ts, NULL, NULL, NULL, NULL, NULL>> : ts \in Clock} \cup
    {<<ts, ts + 1, 1, 1, 0, 0>> : ts \in Clock}

\* save_state, lines 333-438: nothing to do without a field; then the name
\* is validated and the row inserted.
ClientSaveState ==
    /\ client.op = "none"
    /\ \E a \in SaveStateArgs :
          IF save_state(etl, a[1], a[2], a[3], a[4], a[5], a[6]) = etl
          THEN /\ Returns("save_state", a, "none", NULL, <<>>)
               /\ UNCHANGED etl
          ELSE IF NameRejected(client.table_etl)
          THEN /\ Returns("save_state", a, "ValueError", NULL, <<>>)
               /\ UNCHANGED etl
          ELSE \E raised \in BOOLEAN :
                  /\ Returns("save_state", a,
                             IF raised THEN "Exception" ELSE "none", NULL,
                             <<Statement("INSERT", client.table_etl)>>)
                  /\ etl' = IF raised THEN etl
                            ELSE save_state(etl, a[1], a[2], a[3], a[4], a[5],
                                            a[6])
    /\ UNCHANGED <<metrics, tmp, config, active, budget, unlink_ok, pc, cyc,
                   outcome, calls, local, parser, main>>

\* The file handed to insert_from_file: absent, of size zero, or with rows.
Files == {"missing", "empty", "rows"}

\* Mutant of InsertFromFilePlan: an empty file is posted like any other.
InsertFromFilePlan_NoEmptyCheck(file) ==
    IF file = "missing" THEN "FileNotFoundError" ELSE "post"

\* insert_from_file lines 150-170: the checks on the file.
InsertFromFilePlan(file) ==
    IF file = "missing" THEN "FileNotFoundError"
    ELSE IF file = "empty" THEN "return"
    ELSE "post"

\* insert_from_file, lines 131-217.
ClientInsertFromFile ==
    /\ client.op = "none"
    /\ client.file \in Files
    /\ LET plan == InsertFromFilePlan(client.file)
       IN  IF plan = "FileNotFoundError"
           THEN /\ Returns("insert_from_file", NULL, "FileNotFoundError", NULL,
                           <<>>)
                /\ UNCHANGED metrics
           ELSE IF plan = "return"
           THEN /\ Returns("insert_from_file", NULL, "none", NULL, <<>>)
                /\ UNCHANGED metrics
           ELSE IF NameRejected(client.table_metrics)
           THEN /\ Returns("insert_from_file", NULL, "ValueError", NULL, <<>>)
                /\ UNCHANGED metrics
           ELSE \E raised \in BOOLEAN :
                   /\ Returns("insert_from_file", NULL,
                              IF raised THEN "Exception" ELSE "none", NULL,
                              <<Statement("POST", client.table_metrics)>>)
                   /\ metrics' = IF raised THEN metrics
                                 ELSE Append(metrics, [file |-> client.file])
    /\ UNCHANGED <<etl, tmp, config, active, budget, unlink_ok, pc, cyc,
                   outcome, calls, local, parser, main>>

\* _validate_table_name called on its own.
ClientValidateTableName ==
    /\ client.op = "none"
    /\ Returns("validate_table_name", client.table_etl,
               IF ValidateTableName(client.table_etl) THEN "none"
               ELSE "ValueError",
               NULL, <<>>)
    /\ UNCHANGED <<etl, metrics, tmp, config, active, budget, unlink_ok, pc, cyc,
                   outcome, calls, local, parser, main>>

\* ------------------------------------------------------------------- main
\* Mutant of ExitStatus: the handler logs the exception and returns.
ExitStatus_AlwaysZero(raised) == 0

\* main lines 71-83: an exception ends the process through sys.exit(1);
\* without one main returns and the status is 0.
ExitStatus(raised) == IF raised THEN 1 ELSE 0

Exit(step, raised) ==
    main' = [pc |-> "exited", status |-> ExitStatus(raised),
             raised |-> IF raised THEN step ELSE "none"]

\* main lines 54-60: project info, load_config and the log level.
MainLoadConfig ==
    /\ main.pc = "load_config"
    /\ \E raised \in BOOLEAN :
          IF raised THEN Exit("load_config", TRUE)
          ELSE main' = [main EXCEPT !.pc = "clients"]
    /\ UNCHANGED <<etl, metrics, tmp, config, active, budget, unlink_ok, pc, cyc,
                   outcome, calls, local, client, parser>>

\* main lines 62-70: the clients and the job are constructed, and run_once
\* is called, once.
MainCreateClients ==
    /\ main.pc = "clients"
    /\ \E raised \in BOOLEAN :
          IF raised
          THEN Exit("clients", TRUE) /\ UNCHANGED <<active, budget>>
          ELSE /\ main' = [main EXCEPT !.pc = "run_once"]
               /\ active' = {1}
               /\ budget' = 1
    /\ UNCHANGED <<etl, metrics, tmp, config, unlink_ok, pc, cyc, outcome, calls,
                   local, client, parser>>

\* main lines 70-83: run_once has returned or raised.
MainExit ==
    /\ main.pc = "run_once"
    /\ cyc[1] = 1
    /\ pc[1] = "idle"
    /\ Exit("run_once", outcome[1] # "success")
    /\ UNCHANGED <<etl, metrics, tmp, config, active, budget, unlink_ok, pc, cyc,
                   outcome, calls, local, client, parser>>

Next ==
    \/ \E w \in Workers : CheckCanStart(w)
    \/ \E w \in Workers : TryMarkStartInsert(w)
    \/ \E w \in Workers : TryMarkStartVerify(w)
    \/ \E w \in Workers : LoadProgress(w)
    \/ \E w \in Workers : CreateRawFile(w)
    \/ \E w \in Workers : Extract(w)
    \/ \E w \in Workers : CreateOutFile(w)
    \/ \E w \in Workers : Transform(w)
    \/ \E w \in Workers : Load(w)
    \/ \E w \in Workers : Advance(w)
    \/ \E w \in Workers : SaveStateAfterSuccess(w)
    \/ \E w \in Workers : Crash(w)
    \/ Merge

Spec == Init /\ [][Next]_vars

SpecWindow == InitWindow /\ [][Next]_vars

\* Two workers against a seeded table, with one more run_once to come.
InitRestart ==
    /\ Start([window_size |-> 1, overlap |-> 0, min_start |-> 0], <<SeedRow(0)>>,
             Workers, MaxCycles + 1)
    /\ client = NewClient(EtlTable, MetricsTable, "none")
    /\ parser = NoParser
    /\ main = NoMain

SpecRestart == InitRestart /\ [][Next]_vars

\* Rows a state table can hold, whoever wrote them.
StoredRows ==
    {StateRow(ts, te, tp, NULL, NULL, NULL) :
        ts \in Clock, te \in {NULL} \cup Clock, tp \in {NULL, 1}}

Tables == UNION {[1..k -> StoredRows] : k \in 0..MaxTableRows}

\* One call on a ClickHouseClient: over any state table with the deployed
\* table names, or over an empty one with any table name and any file.
InitClient ==
    LET cfg == [window_size |-> 1, overlap |-> 0, min_start |-> 0]
    IN  \/ \E table \in Tables :
              /\ Start(cfg, table, {}, 0)
              /\ client = NewClient(EtlTable, MetricsTable, "rows")
              /\ parser = NoParser
              /\ main = NoMain
        \/ \E name \in Strings(MaxNameLen), file \in Files :
              /\ Start(cfg, <<>>, {}, 0)
              /\ client = NewClient(name, name, file)
              /\ parser = NoParser
              /\ main = NoMain

NextClient ==
    \/ ClientGetState
    \/ ClientHasRunningJob
    \/ ClientTryMarkStart
    \/ ClientSaveState
    \/ ClientInsertFromFile
    \/ ClientValidateTableName

SpecClient == InitClient /\ [][NextClient]_vars

\* One process running main() against a state table that is empty, seeded,
\* or holds the claim row of a job in progress.
InitMain ==
    \E table \in {<<>>, <<SeedRow(0)>>,
                  <<SeedRow(0), StateRow(1, NULL, NULL, NULL, NULL, NULL)>>},
       etl_name \in EtlTableNames, metrics_name \in MetricsTableNames :
       /\ Start([window_size |-> 1, overlap |-> 0, min_start |-> 0], table, {}, 0)
       /\ client = NewClient(etl_name, metrics_name, "none")
       /\ parser = NoParser
       /\ main = NewMain

NextMain ==
    \/ MainLoadConfig
    \/ MainCreateClients
    \/ \E w \in Workers : CheckCanStart(w)
    \/ \E w \in Workers : TryMarkStartInsert(w)
    \/ \E w \in Workers : TryMarkStartVerify(w)
    \/ \E w \in Workers : LoadProgress(w)
    \/ \E w \in Workers : CreateRawFile(w)
    \/ \E w \in Workers : Extract(w)
    \/ \E w \in Workers : CreateOutFile(w)
    \/ \E w \in Workers : Transform(w)
    \/ \E w \in Workers : Load(w)
    \/ \E w \in Workers : Advance(w)
    \/ \E w \in Workers : SaveStateAfterSuccess(w)
    \/ Merge
    \/ MainExit

SpecMain == InitMain /\ [][NextMain]_vars

\* One response parsed by _stream_parse_prometheus_response.
InitTransform ==
    /\ Start([window_size |-> 1, overlap |-> 0, min_start |-> 0], <<>>, {}, 0)
    /\ client = NewClient(EtlTable, MetricsTable, "none")
    /\ main = NoMain
    /\ \E doc \in Documents : parser = NewParser(doc)

NextTransform ==
    \/ StartSeries
    \/ CollectLabel
    \/ CompleteMetric
    \/ EnterValues
    \/ ExitValues
    \/ StartPair
    \/ PairNumber
    \/ PairString
    \/ EndPair
    \/ SkipEvent
    \/ ReturnCounts

SpecTransform == InitTransform /\ [][NextTransform]_vars

\* One response with special characters in its strings, parsed the same way.
InitEscape ==
    /\ Start([window_size |-> 1, overlap |-> 0, min_start |-> 0], <<>>, {}, 0)
    /\ client = NewClient(EtlTable, MetricsTable, "none")
    /\ main = NoMain
    /\ \E doc \in EscapeDocuments : parser = NewParser(doc)

SpecEscape == InitEscape /\ [][NextTransform]_vars

\* ------------------------------------------------------------------ claims
\* Rows of the state table, by their shape.
IsOpenRow(r) == r.timestamp_start # NULL /\ r.timestamp_end = NULL
IsClosingRow(r) == r.timestamp_start # NULL /\ r.timestamp_end # NULL

ClosingRowsFor(ts) ==
    {i \in DOMAIN etl : IsClosingRow(etl[i]) /\ etl[i].timestamp_start = ts}

\* C1: of two run_once executions by different workers that overlap in time,
\* at most one completes successfully and writes a closing row, also when
\* both read the same second as timestamp_start: the two workers have never
\* both succeeded with two closing rows of one timestamp_start in the table.
C1_AtMostOneRunSucceeds ==
    ~ /\ \A w \in Workers : outcome[w] = "success"
      /\ \E ts \in Clock : Cardinality(ClosingRowsFor(ts)) >= 2

\* C2: of two try_mark_start calls in progress together, at most one returns
\* true: two workers are never both at the point where their call has just
\* returned true.
C2_AtMostOneMarkStartTrue ==
    \A w, v \in Workers :
       w # v => ~ (pc[w] = "load_progress" /\ pc[v] = "load_progress")

\* insert_from_file raised in worker w's run_once.
C3_LoadRaised(w) == "insert_from_file raised" \in calls[w]

\* C3: the closing save_state is invoked only after insert_from_file returned
\* without error, or after the load was skipped because rows_count = 0; when
\* insert_from_file raises, the run_once ends there, calls no save_state,
\* and leaves the state table and what get_state returns as they were.
C3_SaveStateOnlyAfterLoad ==
    /\ [](\A w \in Workers :
            /\ pc[w] \in {"advance", "save_state"} =>
                  IF local[w].rows_count > 0
                  THEN "insert_from_file" \in calls[w] /\ ~ C3_LoadRaised(w)
                  ELSE "insert_from_file" \notin calls[w]
            /\ "save_state" \in calls[w] =>
                  "stream_parse" \in calls[w] /\ ~ C3_LoadRaised(w)
            /\ C3_LoadRaised(w) =>
                  pc[w] = "idle" /\ outcome[w] = "load_failed")
    /\ [][\A w \in Workers :
            (C3_LoadRaised(w)' /\ ~ C3_LoadRaised(w)) =>
               etl' = etl /\ get_state(etl') = get_state(etl)]_vars

C3_Witness ==
    \E w \in Workers :
       /\ C3_LoadRaised(w)
       /\ outcome[w] = "load_failed"
       /\ \E v \in Workers : outcome[v] = "success"

\* The step in which worker w's run_once writes its closing row and returns.
Succeeds(w) == pc[w] = "save_state" /\ outcome'[w] = "success"

Last(t) == t[Len(t)]

\* C4 as stated: after every successful run_once the persisted
\* timestamp_progress is at least the progress read at the start of the cycle.
C4_ProgressNeverDecreases ==
    [][\A w \in Workers :
          Succeeds(w) => Last(etl').timestamp_progress >= local[w].progress]_vars

\* C4 as amended: the same when the overlap does not exceed the window size
\* and the clock read at completion is not before the progress read at start.
C4_ProgressNeverDecreasesUpToNow ==
    [][\A w \in Workers :
          (/\ Succeeds(w)
           /\ config.overlap <= config.window_size
           /\ local[w].current_time >= local[w].progress)
          => Last(etl').timestamp_progress >= local[w].progress]_vars

C4_Witness ==
    /\ outcome[1] = "success"
    /\ config.overlap > 0
    /\ config.overlap <= config.window_size
    /\ Last(etl).batch_rows # NULL
    /\ Last(etl).timestamp_progress > etl[1].timestamp_progress

\* C5: after every successful run_once the persisted timestamp_progress is
\* min(window_end, now), with now read after the load step, and so never
\* exceeds the clock at completion.
C5_ProgressClampedToNow ==
    /\ [](\A w \in Workers :
            local[w].current_time # NULL =>
               pc[w] = "save_state" /\ "stream_parse" \in calls[w])
    /\ [][\A w \in Workers :
            Succeeds(w) =>
               /\ Last(etl').timestamp_progress =
                     Min(local[w].window_end, local[w].current_time)
               /\ Last(etl').timestamp_progress <= local[w].current_time]_vars

\* Witness of C5: progress seeded later than any clock reading, and a
\* successful cycle has persisted a progress within the clock.
C5_Witness ==
    /\ outcome[1] = "success"
    /\ etl[1].timestamp_progress > MaxClock
    /\ Last(etl).batch_rows # NULL
    /\ Last(etl).timestamp_progress <= MaxClock

\* C6: every closing row of the state table has timestamp_end > timestamp_start.
C6_EndAfterStart ==
    \A i \in DOMAIN etl :
       IsClosingRow(etl[i]) => etl[i].timestamp_end > etl[i].timestamp_start

\* Witness of C6: a cycle that started at the latest second of the clock, so
\* that the clock at completion read the same second or an earlier one.
C6_Witness ==
    \E i \in DOMAIN etl :
       /\ etl[i].batch_rows # NULL
       /\ etl[i].timestamp_start = MaxClock
       /\ etl[i].timestamp_end = MaxClock + 1

\* C7: when run_once has returned or raised, on whatever path, and the
\* deletions work, neither scratch file of that cycle exists.
C7_NoScratchFileLeft ==
    \A w \in Workers :
       (pc[w] = "idle" /\ outcome[w] \notin {"none", "crashed"} /\ unlink_ok)
       => RawFile(w) \notin tmp /\ TsvFile(w) \notin tmp

C8_FailedSteps ==
    {"extract_failed", "transform_failed", "load_failed", "save_failed"}

\* C8: after a run_once that failed in the extract, transform, load or
\* state-persist step, with no other worker, the next run_once passes the
\* gate: has_running_job is false once such a run_once has ended.
C8_RetryPassesGate ==
    \A w \in Workers :
       (/\ pc[w] = "idle"
        /\ outcome[w] \in C8_FailedSteps
        /\ \A v \in Workers \ {w} : cyc[v] = 0)
       => ~ has_running_job(etl)

\* A run_once of worker w begins in this step.
Begins(w) == cyc'[w] # cyc[w]

\* Worker w inserted its claim row and died in that run_once, so it wrote
\* no closing row for it.
CrashedAfterClaim(w) ==
    /\ pc[w] = "idle"
    /\ outcome[w] = "crashed"
    /\ "try_mark_start inserted" \in calls[w]

\* C9: once a worker has inserted its claim row and stopped without writing a
\* closing row for it, every run_once begun afterwards, by any worker, fails
\* at the gate and inserts no row.
C9_FailStopAfterCrash ==
    [][\A w, x \in Workers :
          (CrashedAfterClaim(w) /\ Begins(x)) =>
             /\ pc'[x] = "idle"
             /\ outcome'[x] = "cannot_start"
             /\ etl' = etl]_vars

\* C10: when has_running_job is true at the gate, run_once fails with the
\* cannot-start error having called nothing but has_running_job, and leaves
\* the state table, the metrics table and the temp directory unchanged.
C10_BlockedAtGate ==
    [][\A w \in Workers :
          (Begins(w) /\ has_running_job(etl)) =>
             /\ pc'[w] = "idle"
             /\ outcome'[w] = "cannot_start"
             /\ calls'[w] \ {"has_running_job raised"} = {"has_running_job"}
             /\ etl' = etl /\ metrics' = metrics /\ tmp' = tmp]_vars

C10_Witness ==
    \E w, v \in Workers :
       /\ outcome[w] = "cannot_start"
       /\ pc[v] = "extract"
       /\ has_running_job(etl)

\* Worker w's _load_progress gets an answer from get_state in this step.
ReadsProgress(w) ==
    /\ pc[w] = "load_progress"
    /\ "get_state" \in calls'[w]
    /\ outcome'[w] # "state_read_failed"

\* What one run_once calls after the progress is loaded.
AfterProgressCalls ==
    {"query_range_to_file", "stream_parse", "insert_from_file", "save_state"}

\* C11: when get_state yields a null timestamp_progress, run_once fails with
\* the progress-missing error, the claim row being in the table already,
\* having called neither the Extractor, the Loader nor the closing save_state,
\* and having created no scratch file.
C11_ProgressMissingStops ==
    [][\A w \in Workers :
          (ReadsProgress(w) /\ get_state(etl).timestamp_progress = NULL) =>
             /\ pc'[w] = "idle"
             /\ outcome'[w] = "progress_missing"
             /\ "try_mark_start" \in calls'[w]
             /\ \E i \in DOMAIN etl' :
                   etl'[i].timestamp_start = local[w].timestamp_start
             /\ calls'[w] \cap AfterProgressCalls = {}
             /\ RawFile(w) \notin tmp' /\ TsvFile(w) \notin tmp'
             /\ etl' = etl /\ metrics' = metrics]_vars

C11_Witness ==
    \E w \in Workers :
       /\ outcome[w] = "progress_missing"
       /\ \E i \in DOMAIN etl : IsOpenRow(etl[i])
       /\ \A i \in DOMAIN etl : ~ IsClosingRow(etl[i])

\* Worker w's load step runs in this step.
LoadStep(w) == pc[w] = "load" /\ pc'[w] # "load" /\ outcome'[w] # "crashed"

C13_WindowOfProgress ==
    \A w \in Workers :
       local[w].progress # NULL =>
          /\ local[w].window_start =
                Max(local[w].progress - config.overlap, config.min_start)
          /\ local[w].window_end = local[w].window_start + config.window_size
          /\ local[w].window_end - local[w].window_start = config.window_size
          /\ local[w].window_start >= config.min_start

\* Witness of C13: a window whose start was clamped to min_allowed, and whose
\* overlap is positive.
C13_Witness ==
    \E w \in Workers :
       /\ local[w].progress # NULL
       /\ config.overlap > 0
       /\ local[w].progress - config.overlap < config.min_start
       /\ local[w].window_start = config.min_start
       /\ local[w].window_end = config.min_start + config.window_size

\* Calls of run_once that go to the network: the state-store queries and
\* the range query.
NetworkCalls ==
    {"has_running_job", "try_mark_start", "get_state", "save_state",
     "query_range_to_file"}

\* C14: with a metrics table name that is not a valid identifier, run_once
\* makes no network call (no state-store query, no range query, no insert),
\* writes no state row, not even the claim row, and does not succeed.
C14_InvalidMetricsTableStopsFirst ==
    ~ ValidateTableName(client.table_metrics) =>
       /\ \A w \in Workers : calls[w] \cap NetworkCalls = {}
       /\ \A w \in Workers : outcome[w] # "success"
       /\ metrics = <<>>
       /\ \A i \in DOMAIN etl : etl[i] = SeedRow(etl[i].timestamp_progress)

\* The table a client call names in what it sends.
TableOfCall ==
    IF client.op = "insert_from_file" THEN client.table_metrics
    ELSE client.table_etl

\* Calls that are to send a statement: every call on the state table but a
\* save_state without fields, and insert_from_file of a file with rows.
CallSendsStatement ==
    \/ client.op \in {"get_state", "has_running_job", "try_mark_start"}
    \/ client.op = "save_state" /\ \E k \in 1..6 : client.arg[k] # NULL
    \/ client.op = "insert_from_file" /\ client.file = "rows"

\* C15: in get_state, save_state with a field, has_running_job,
\* try_mark_start and insert_from_file of a non-empty file, a table name that
\* fails identifier validation makes the call raise, and no statement or
\* request containing that name is sent.
C15_InvalidNameNeverSent ==
    /\ (CallSendsStatement /\ ~ ValidateTableName(TableOfCall)) =>
          client.raised = "ValueError" /\ client.sent = <<>>
    /\ \A i \in DOMAIN client.sent : ValidateTableName(client.sent[i].table)

C15_Witness ==
    /\ client.op = "try_mark_start"
    /\ client.table_etl = <<"a", ";">>
    /\ client.raised = "ValueError"
    /\ client.sent = <<>>

\* The regular expression ^[A-Za-z0-9_]+(\.[A-Za-z0-9_]+)?$ on a string.
IsAsciiWordChar(c) == c \in {"a", "7", "_"}

IsAsciiWord(str) == str # <<>> /\ \A i \in DOMAIN str : IsAsciiWordChar(str[i])

MatchesIdentifier(str) ==
    \/ IsAsciiWord(str)
    \/ \E d \in DOMAIN str :
          /\ str[d] = "."
          /\ IsAsciiWord(SubSeq(str, 1, d - 1))
          /\ IsAsciiWord(SubSeq(str, d + 1, Len(str)))

\* C16: _validate_table_name raises exactly when the string does not match
\* ^[A-Za-z0-9_]+(\.[A-Za-z0-9_]+)?$.
C16_ValidatorIsTheRegex ==
    client.op = "validate_table_name" =>
       (client.raised = "ValueError" <=> ~ MatchesIdentifier(client.arg))

CompletedInMergedView ==
    {r \in FinalRows(etl) : /\ r.timestamp_progress # NULL
                            /\ r.timestamp_end # NULL
                            /\ r.timestamp_end > r.timestamp_start}

C19_RunningJobInMergedView ==
    (client.op = "has_running_job" /\ client.raised = "none") =>
       (client.result <=>
          \E r \in FinalRows(etl) :
             /\ r.timestamp_start # NULL
             /\ r.timestamp_end = NULL
             /\ ~ \E c \in FinalRows(etl) :
                     /\ c.timestamp_start = r.timestamp_start
                     /\ c.timestamp_end # NULL
                     /\ c.timestamp_end > c.timestamp_start)

\* Witness of C19: no running job in a table whose rows all carry a
\* timestamp_end that is not after timestamp_start.
C19_Witness ==
    /\ client.op = "has_running_job"
    /\ client.raised = "none"
    /\ client.result = FALSE
    /\ etl # <<>>
    /\ \A i \in DOMAIN etl :
          /\ etl[i].timestamp_end # NULL
          /\ etl[i].timestamp_end <= etl[i].timestamp_start

\* C20: try_mark_start(ts) returns true only if that call's conditional
\* insert added the open row of timestamp_start ts and the unmerged read of
\* the running rows gives exactly ts; a call whose insert was rejected
\* returns false.
C20_TrueOnlyAfterOwnInsert ==
    [][(/\ client.op = "none"
        /\ client'.op = "try_mark_start"
        /\ client'.raised = "none"
        /\ client'.result)
       => /\ etl' = Append(etl, StateRow(client'.arg, NULL, NULL, NULL, NULL,
                                        NULL))
          /\ RunningJobTimestamps(RawRows(etl')) = {client'.arg}]_vars

SeriesLabels(series) ==
    IF \E i \in DOMAIN series : series[i].key = "metric"
    THEN (CHOOSE m \in {series[i] : i \in DOMAIN series} : m.key = "metric").labels
    ELSE <<>>

SeriesSamples(series) ==
    IF \E i \in DOMAIN series : series[i].key = "values"
    THEN (CHOOSE m \in {series[i] : i \in DOMAIN series} : m.key = "values").samples
    ELSE <<>>

HasLabel(labels, key) == \E i \in DOMAIN labels : labels[i][1] = key

LabelValue(labels, key) ==
    labels[CHOOSE i \in DOMAIN labels :
              /\ labels[i][1] = key
              /\ \A j \in DOMAIN labels : labels[j][1] = key => j <= i][2]

\* The name and the label arrays a metric object stands for.
NameOf(labels) ==
    IF HasLabel(labels, NameKey) THEN LabelValue(labels, NameKey) ELSE <<>>

KeysOf(labels) ==
    SelectSeq(LabelNames, LAMBDA k : k # NameKey /\ HasLabel(labels, k))

ValuesOf(labels) == [i \in DOMAIN KeysOf(labels) |-> LabelValue(labels, KeysOf(labels)[i])]

\* C22: in every row written, labels.key is strictly ascending and holds no
\* __name__, and labels.value has the same length, with at each position the
\* value that a metric object of the response gives the key at that position.
C22_LabelArraysSorted ==
    \A n \in DOMAIN parser.output_f :
       \/ parser.output_f[n].labels_key = <<>> /\ parser.output_f[n].labels_value = <<>>
       \/ \E s \in DOMAIN parser.doc :
             LET keys == KeysOf(SeriesLabels(parser.doc[s]))
                 values == ValuesOf(SeriesLabels(parser.doc[s]))
             IN  /\ \A i, j \in DOMAIN keys : i < j => StrLess(keys[i], keys[j])
                 /\ \A i \in DOMAIN keys : keys[i] # NameKey
                 /\ Len(keys) = Len(values)
                 /\ parser.output_f[n].labels_key = FormatClickhouseArray(keys)
                 /\ parser.output_f[n].labels_value = FormatClickhouseArray(values)

C22_Witness ==
    /\ parser.returned
    /\ Len(parser.doc) = 1
    /\ SeriesLabels(parser.doc[1]) = << <<<<"b">>, <<"u">>>>, <<<<"a">>, <<"v">>>> >>
    /\ Len(parser.output_f) = 1
    /\ parser.output_f[1].labels_key = <<"[", "'", "a", "'", ",", "'", "b", "'", "]">>
    /\ parser.output_f[1].labels_value = <<"[", "'", "v", "'", ",", "'", "u", "'", "]">>

\* The sample pairs of the response in document order, each with the index
\* of its series.
SamplesOf(doc) ==
    Flatten([s \in DOMAIN doc |->
               [k \in DOMAIN SeriesSamples(doc[s]) |->
                  [series |-> s, pair |-> SeriesSamples(doc[s])[k]]]])

\* A value literal that is a number: a decimal numeral or one of NaN, Inf,
\* +Inf, -Inf.
SpecialLiterals == {"NaN", "Inf", "+Inf", "-Inf"}
IsNumberLiteral(literal) == literal = "1.5" \/ literal \in SpecialLiterals

\* The elements of a pair that stand parsed at its end: numbers and number
\* literals are kept, a string that is no number empties the pair, anything
\* else is passed over.
RECURSIVE ParsedElements(_)
ParsedElements(pair) ==
    IF pair = <<>> THEN <<>>
    ELSE LET e == pair[Len(pair)]
             before == ParsedElements(SubSeq(pair, 1, Len(pair) - 1))
         IN  IF e.event = "number" THEN Append(before, e)
             ELSE IF e.event = "string"
             THEN (IF IsNumberLiteral(e.value) THEN Append(before, e) ELSE <<>>)
             ELSE before

\* The samples that end with exactly two parsed elements.
EmittedSamples(doc) ==
    SelectSeq(SamplesOf(doc), LAMBDA x : Len(ParsedElements(x.pair)) = 2)

FloatOf(e) ==
    IF e.event = "number" THEN FloatOfNumber(e.value) ELSE FloatOfString(e.value)

\* The number of samples whose value literal, the second element of the
\* pair, is a string that is no number.
UnparseableValueSamples(doc) ==
    Len(SelectSeq(SamplesOf(doc),
                  LAMBDA x : /\ Len(x.pair) >= 2
                             /\ x.pair[2].event = "string"
                             /\ ~ IsNumberLiteral(x.pair[2].value)))

\* C23: the skipped count the Transformer returns is the number of samples
\* whose value literal is a string that is neither a number nor one of NaN,
\* Inf, +Inf, -Inf; nothing else is counted.
C23_SkippedCountsBadValueLiterals ==
    parser.returned =>
       parser.skipped_count = UnparseableValueSamples(parser.doc)

\* The token of the value column for each special literal.
SpecialToken(literal) ==
    CASE literal = "NaN" -> "nan"
      [] literal = "Inf" -> "inf"
      [] literal = "+Inf" -> "inf"
      [] literal = "-Inf" -> "-inf"

IsSpecialSample(pair) ==
    /\ Len(pair) = 2
    /\ pair[1].event = "number"
    /\ pair[2].event = "string"
    /\ pair[2].value \in SpecialLiterals

\* C24: a sample whose value literal is NaN, Inf, +Inf or -Inf is written as
\* a row, not skipped, and its value column is nan, inf, inf or -inf.
C24_SpecialValuesLowercase ==
    LET emitted == EmittedSamples(parser.doc)
    IN  /\ \A n \in DOMAIN parser.output_f :
              (n <= Len(emitted) /\ IsSpecialSample(emitted[n].pair)) =>
                 parser.output_f[n].value = SpecialToken(emitted[n].pair[2].value)
        /\ (/\ parser.returned
            /\ \A n \in DOMAIN SamplesOf(parser.doc) :
                  IsSpecialSample(SamplesOf(parser.doc)[n].pair)) =>
              /\ Len(parser.output_f) = Len(SamplesOf(parser.doc))
              /\ parser.skipped_count = 0

C24_Witness ==
    /\ parser.returned
    /\ Len(parser.doc) = 1
    /\ SeriesSamples(parser.doc[1]) = << <<Number("1"), String("+Inf")>> >>
    /\ Len(parser.output_f) = 1
    /\ parser.output_f[1].value = "inf"
    /\ parser.skipped_count = 0

\* C25: one line is written for each sample pair that ends with exactly two
\* parsed elements, in document order, and the rows count returned is the
\* number of lines written.
C25_OneLinePerSample ==
    LET emitted == EmittedSamples(parser.doc)
        expected == [n \in DOMAIN emitted |->
                       <<FormatTimestamp(FloatOf(ParsedElements(emitted[n].pair)[1])),
                         emitted[n].series>>]
    IN  /\ parser.rows_count = Len(parser.output_f)
        /\ Len(parser.output_f) <= Len(emitted)
        /\ \A n \in DOMAIN parser.output_f :
              parser.output_f[n].timestamp = expected[n][1]
        /\ parser.returned => Len(parser.output_f) = Len(emitted)

C25_Witness ==
    /\ parser.returned
    /\ Len(parser.doc) = 1
    /\ Len(SeriesSamples(parser.doc[1])) = 2
    /\ SeriesSamples(parser.doc[1])[1] = <<Number("2"), String("banana")>>
    /\ SeriesSamples(parser.doc[1])[2] = <<Number("1"), String("NaN")>>
    /\ parser.rows_count = 1
    /\ Len(parser.output_f) = 1
    /\ parser.output_f[1].timestamp = "1.000000"

\* C30: every row carries the metric name and the label arrays of the metric
\* object of the series its sample belongs to, whether that series has a
\* metric member or not and wherever the member stands.
C30_RowOfItsOwnSeries ==
    LET emitted == EmittedSamples(parser.doc)
    IN  \A n \in DOMAIN parser.output_f :
           n <= Len(emitted) =>
              LET labels == SeriesLabels(parser.doc[emitted[n].series])
              IN  /\ parser.output_f[n].name = NameOf(labels)
                  /\ parser.output_f[n].labels_key =
                        FormatClickhouseArray(KeysOf(labels))
                  /\ parser.output_f[n].labels_value =
                        FormatClickhouseArray(ValuesOf(labels))

\* C26: main runs run_once at most once, and exactly once unless an earlier
\* step raised; it ends with exit status 1 when load_config, the construction
\* of the clients or run_once raised, and with status 0 when run_once
\* returned.
C26_ExitStatus ==
    /\ \A w \in Workers : cyc[w] <= (IF w = 1 THEN 1 ELSE 0)
    /\ main.pc = "exited" =>
          IF cyc[1] = 0
          THEN main.status = 1 /\ main.raised \in {"load_config", "clients"}
          ELSE /\ pc[1] = "idle"
               /\ main.status = (IF outcome[1] = "success" THEN 0 ELSE 1)

C26_Witness ==
    /\ main.pc = "exited"
    /\ main.status = 1
    /\ outcome[1] = "load_failed"

\* The closing row of worker w's cycle.
ClosingRow(w) ==
    StateRow(local[w].timestamp_start, local[w].timestamp_end,
             local[w].new_progress, local[w].actual_window,
             local[w].rows_count, local[w].skipped_count)

\* Worker w's run_once ends in this step without success.
Fails(w) == pc[w] # "idle" /\ pc'[w] = "idle" /\ outcome'[w] # "success"

\* C27: a successful run_once has appended its own open row through
\* try_mark_start and then appends one closing row of the same
\* timestamp_start with the five other fields set; a run_once that fails
\* appends no closing row.
C27_TwoRowsPerSuccess ==
    [][\A w \in Workers :
          /\ Succeeds(w) =>
                /\ "try_mark_start inserted" \in calls[w]
                /\ etl' = Append(etl, ClosingRow(w))
                /\ \A f \in {"timestamp_end", "timestamp_progress",
                             "batch_window_seconds", "batch_rows",
                             "batch_skipped_count"} : ClosingRow(w)[f] # NULL
          /\ Fails(w) =>
                \/ etl' = etl
                \/ /\ pc[w] = "mark_start"
                   /\ etl' = Append(etl, StateRow(local'[w].timestamp_start,
                                                  NULL, NULL, NULL, NULL, NULL))
      ]_vars

\* What run_once calls after the gate.
AfterGateCalls ==
    {"try_mark_start", "get_state", "query_range_to_file", "stream_parse",
     "insert_from_file", "save_state"}

\* C28: when has_running_job raises, run_once fails with the cannot-start
\* error having called nothing else; when try_mark_start raises, run_once
\* fails with the cannot-start error of _mark_start without loading progress,
\* extracting, loading or writing a closing row.
C28_RaisedAtGateOrClaim ==
    \A w \in Workers :
       /\ "has_running_job raised" \in calls[w] =>
             /\ pc[w] = "idle"
             /\ outcome[w] = "cannot_start"
             /\ calls[w] \cap AfterGateCalls = {}
       /\ "try_mark_start raised" \in calls[w] =>
             /\ pc[w] = "idle"
             /\ outcome[w] = "mark_failed"
             /\ calls[w] \cap (AfterGateCalls \ {"try_mark_start"}) = {}

C28_Witness ==
    /\ ~ ValidateTableName(client.table_etl)
    /\ "has_running_job raised" \in calls[1]
    /\ main.pc = "exited"
    /\ main.status = 1

\* The way a step of run_once that deletes scratch files ends by itself.
OwnEndings(step) ==
    CASE step = "extract" -> {"extract_failed"}
      [] step = "transform" -> {"transform_failed"}
      [] step = "load" -> {"load_failed"}

\* C29: when the scratch files cannot be deleted, a step that succeeded goes
\* on to the next step and the cycle can still persist its state, and a step
\* that failed ends run_once with its own error.
C29_CleanupNeverChangesOutcome ==
    [][\A w \in Workers :
          (/\ ~ unlink_ok
           /\ pc[w] \in {"extract", "transform", "load"}
           /\ pc'[w] # pc[w]) =>
             \/ pc'[w] = "idle" /\ outcome'[w] \in OwnEndings(pc[w]) \cup {"crashed"}
             \/ pc[w] = "extract" /\ pc'[w] = "create_out"
             \/ pc[w] = "transform" /\ pc'[w] = "load"
             \/ pc[w] = "load" /\ pc'[w] = "advance"]_vars

C29_Witness ==
    \E w, v \in Workers :
       /\ ~ unlink_ok
       /\ outcome[w] = "success"
       /\ RawFile(w) \in tmp
       /\ TsvFile(w) \in tmp
       /\ outcome[v] = "load_failed"


\* Worker w's run_once invokes insert_from_file in this step.
InvokesLoader(w) ==
    "insert_from_file" \in calls'[w] /\ "insert_from_file" \notin calls[w]

\* Worker w's transform raises in this step.
TransformRaises(w) == pc[w] = "transform" /\ outcome'[w] = "transform_failed"

\* C31 as stated: when insert_from_file is invoked the raw extract file has
\* been deleted and the output file is closed; when the transform raises,
\* both scratch files are deleted as run_once ends, and the Loader is not
\* invoked in that cycle.
C31_DeletedBeforeLoad ==
    [][\A w \in Workers :
          /\ InvokesLoader(w) =>
                /\ ~ local[w].output_open
                /\ RawFile(w) \notin tmp
          /\ TransformRaises(w) =>
                /\ RawFile(w) \notin tmp' /\ TsvFile(w) \notin tmp'
                /\ "insert_from_file" \notin calls'[w]]_vars

\* C31 as amended: the same for the files whose deletion succeeds; in every
\* case the deletion of the raw file has been attempted, the output file is
\* closed before insert_from_file is invoked, and a transform error ends the
\* cycle without the Loader.
C31_DeletionAttemptedBeforeLoad ==
    [][\A w \in Workers :
          /\ InvokesLoader(w) =>
                /\ ~ local[w].output_open
                /\ "stream_parse" \in calls[w]
                /\ unlink_ok => RawFile(w) \notin tmp
          /\ TransformRaises(w) =>
                /\ unlink_ok => (RawFile(w) \notin tmp' /\ TsvFile(w) \notin tmp')
                /\ pc'[w] = "idle"
                /\ "insert_from_file" \notin calls'[w]]_vars

C31_Witness ==
    \E w, v \in Workers :
       /\ unlink_ok
       /\ "insert_from_file" \in calls[w]
       /\ pc[w] = "advance"
       /\ outcome[v] = "transform_failed"
       /\ tmp = {}


\* Worker w's try_mark_start runs its conditional INSERT in this step.
RunsConditionalInsert(w) == pc[w] = "mark_start" /\ pc'[w] = "mark_verify"

\* C32: try_mark_start inserts its open row exactly when has_running_job,
\* evaluated on the same table, returns false.
C32_InsertsIffNoRunningJob ==
    [][\A w \in Workers :
          RunsConditionalInsert(w) =>
             (etl' # etl <=> ~ has_running_job(etl))]_vars


\* Worker w's run_once ends in this step, blocked at the gate or failing to
\* claim.
FailsToStart(w) ==
    /\ pc[w] \in {"idle", "mark_start", "mark_verify"}
    /\ pc'[w] = "idle"
    /\ cyc'[w] > 0
    /\ <<pc[w], cyc[w]>> # <<pc'[w], cyc'[w]>>
    /\ outcome'[w] \in {"cannot_start", "mark_failed"}

\* C33: a run_once that ends blocked at the gate or failing to claim has
\* created no scratch file and leaves no open row of its own in the state
\* table.
C33_NothingToCleanUp ==
    [][\A w \in Workers :
          FailsToStart(w) =>
             /\ tmp' = tmp
             /\ calls'[w] \cap AfterProgressCalls = {}
             /\ "try_mark_start inserted" \notin calls'[w]]_vars


\* The completed record get_state returns, if any.
CompletedRecord(t) == get_state(t).timestamp_start # NULL

\* C34: once get_state returns a completed record of timestamp_start t, no
\* step other than the closing save_state of a successful cycle makes
\* get_state return a smaller timestamp_progress (or none), and no step makes
\* has_running_job report t as running.
C34_CompletedStaysCompleted ==
    [][CompletedRecord(etl) =>
          /\ get_state(etl).timestamp_start
                \notin get_running_job_timestamps(etl', TRUE)
          /\ (\A w \in Workers : ~ Succeeds(w)) =>
                /\ CompletedRecord(etl')
                /\ get_state(etl').timestamp_progress
                      >= get_state(etl).timestamp_progress]_vars


\* Worker w's cycle has a window that is wholly in the past when the clock is
\* read, and a progress not below the configured minimum.
PastWindow(w) ==
    /\ config.min_start <= local[w].progress
    /\ local[w].window_end <= local[w].current_time

\* C35 as stated: a successful cycle whose window_end is not in the future,
\* with a progress not below the minimum, persists a timestamp_progress
\* greater than the progress it read.
C35_ProgressAdvances ==
    [][\A w \in Workers :
          (Succeeds(w) /\ PastWindow(w))
          => Last(etl').timestamp_progress > local[w].progress]_vars

\* C35 as amended: the same when the overlap is smaller than the window size.
C35_ProgressAdvancesPastOverlap ==
    [][\A w \in Workers :
          (Succeeds(w) /\ PastWindow(w) /\ config.overlap < config.window_size)
          => Last(etl').timestamp_progress > local[w].progress]_vars

C35_Witness ==
    /\ outcome[1] = "success"
    /\ config.overlap = 1
    /\ config.window_size = 2
    /\ config.min_start <= etl[1].timestamp_progress
    /\ Last(etl).batch_rows # NULL
    /\ Last(etl).timestamp_progress = etl[1].timestamp_progress + 1
    /\ Last(etl).batch_window_seconds = config.window_size


\* The wall-clock times at which the range query of worker w's cycle can
\* have been issued: run_once reads the clock before it (timestamp_start,
\* line 90) and after the load (current_time, line 147), not at the query.
QueryTimes(w) ==
    {q \in Clock : local[w].timestamp_start <= q /\ q <= local[w].current_time}

\* C36: the timestamp_progress a successful cycle persists does not exceed
\* the wall-clock time at which the range query of that cycle was issued,
\* whenever between the two clock readings of the cycle that was.
C36_ProgressWithinExtractedSpan ==
    [][\A w \in Workers :
          Succeeds(w) =>
             \A q \in QueryTimes(w) : Last(etl').timestamp_progress <= q]_vars


\* C37: every closing row written by run_once carries a batch_window_seconds
\* between 0 and the configured window size.
C37_WindowSecondsInRange ==
    \A i \in DOMAIN etl :
       etl[i].batch_window_seconds # NULL =>
          /\ 0 <= etl[i].batch_window_seconds
          /\ etl[i].batch_window_seconds <= config.window_size


\* Worker w is the only worker that has ever begun a run_once.
OnlyWorker(w) == \A v \in Workers : v # w => cyc[v] = 0

\* C38: after a successful run_once of a single worker, get_state returns
\* the timestamp_progress that this run persisted.
C38_GetStateReturnsLastPersisted ==
    [][\A w \in Workers :
          (Succeeds(w) /\ OnlyWorker(w))
          => get_state(etl').timestamp_progress =
                Last(etl').timestamp_progress]_vars


\* C39: the rows count and the skipped count the Transformer returns add up
\* to the number of sample pairs (inner arrays of the values arrays) of the
\* response.
C39_EverySampleAccounted ==
    parser.returned =>
       parser.rows_count + parser.skipped_count = Len(SamplesOf(parser.doc))


\* The number of elements of a text that are the character c.
RECURSIVE Count(_, _)
Count(text, c) ==
    IF text = <<>> THEN 0
    ELSE (IF Head(text) = c THEN 1 ELSE 0) + Count(Tail(text), c)

\* C40: every line written holds exactly four raw tab characters and exactly
\* one raw newline, its last character, whatever backslashes, tabs, newlines
\* and single quotes the metric name and the label names and values hold.
C40_FiveFieldsPerLine ==
    \A n \in DOMAIN parser.output_f :
       LET text == parser.output_f[n].text
       IN  /\ Count(text, "\t") = 4
           /\ Count(text, "\n") = 1
           /\ text[Len(text)] = "\n"

C40_Witness ==
    /\ parser.returned
    /\ SeriesLabels(parser.doc[1]) = << <<<<"\t", "'">>, <<"\n", "\\">>>> >>
    /\ Len(parser.output_f) = 1
    /\ parser.output_f[1].labels_key =
          <<"[", "'", "\\", "t", "\\", "'", "'", "]">>
    /\ parser.output_f[1].labels_value =
          <<"[", "'", "\\", "n", "\\", "\\", "'", "]">>

====
